---- MODULE Spec2Model ----
(***************************************************************************)
(* A model of ccan/tal/tal.c: the hierarchical allocator's headers, the    *)
(* intrusive sibling lists, the property chains, and the operations        *)
(* tal_alloc_, tal_alloc_arr_, tal_free/del_tree, tal_steal_, tal_resize_, *)
(* tal_set_name_, tal_add_notifier_, tal_del_notifier_ and the traversal   *)
(* functions.  Memory is modelled at pointer level: a header is an address,*)
(* a children property is a separately allocated block, list nodes hold    *)
(* next/prev references.                                                   *)
(***************************************************************************)
EXTENDS Integers, Sequences, FiniteSets, TLC

\* ------------------------------------------------------------------ bounds
\* Number of heap addresses the backend can hand out for headers.
MaxAddr == 4
\* Number of nodes a behaviour keeps live at once.
MaxLive == 3
\* Number of notifiers the heap holds at once, and of general (not
\* FREE-only) notifiers a behaviour adds.
MaxNotifierAdds == 2
\* Notifiers the heap holds at once where every kind of property is mixed.
MaxChainNotifiers == 1
\* Notifiers one node holds at once where notifiers are added and removed.
MaxNotifiers == 3
\* Number of library calls one callback invocation may make.
MaxCbCalls == 1
\* Largest element count passed to tal_alloc_arr_ / tal_resize_.
MaxCount == 2
\* The most arrays a behaviour of the array operations keeps live.
MaxArr == 2

\* ------------------------------------------------------------- addresses
NULL == 0
Addr == 1..MaxAddr
\* &null_parent.hdr, a static object outside the heap.
null_parent == MaxAddr + 1
Hdrs == Addr \cup {null_parent}
\* &null_parent.c, the static children property of the sentinel root.
null_parent_c == 0
ChildIds == 1..MaxAddr
AllChildIds == ChildIds \cup {null_parent_c}

\* A list_node is either the `list` member of a header or the `children`
\* head of a children property.
HRef(a) == <<"h", a>>
CRef(k) == <<"c", k>>
Refs == {HRef(a) : a \in Addr} \cup {CRef(k) : k \in AllChildIds}
IsHRef(r) == r[1] = "h"

VARIABLES heap, stack, log, last, crashed

vars == <<heap, stack, log, last, crashed>>

\* ------------------------------------------------------------- ccan/list
list_head_init(L, h) == [L EXCEPT ![h] = [next |-> h, prev |-> h]]

\* list_add: insert n right after the head h.
list_add(L, h, n) ==
    LET old == L[h].next
        L1 == [L EXCEPT ![n] = [next |-> old, prev |-> h]]
        L2 == [L1 EXCEPT ![old].prev = n]
    IN  [L2 EXCEPT ![h].next = n]

\* list_del without CCAN_LIST_DEBUG: n keeps its own next/prev.
list_del(L, n) ==
    LET L1 == [L EXCEPT ![L[n].next].prev = L[n].prev]
    IN  [L1 EXCEPT ![L1[n].prev].next = L1[n].next]

\* list_top: the first entry's header address, or NULL when the list is empty.
list_top(L, h) == IF L[h].next = h THEN NULL ELSE L[h].next[2]

\* -------------------------------------------------------- property chain
NOTIFY_IS_DESTRUCTOR == "IS_DESTRUCTOR"
NotifyTypes == {"FREE", "STEAL", "MOVE", "RESIZE", "RENAME", "ADD_CHILD",
                "DEL_CHILD", "ADD_NOTIFIER", "DEL_NOTIFIER"}

is_literal(p) == p.type = "literal"

RECURSIVE find_from(_, _, _)
find_from(chain, type, i) ==
    IF i > Len(chain) THEN 0
    ELSE IF is_literal(chain[i]) THEN (IF type = "NAME" THEN i ELSE 0)
    ELSE IF chain[i].type = type THEN i
    ELSE find_from(chain, type, i + 1)

\* find_property_ptr: the position in the chain of the first property of the
\* type (a literal counts as a NAME and ends the search), 0 for NULL.
find_property_ptr(H, t, type) == find_from(H.prop[t], type, 1)

\* A property linked at the tail of the chain instead.
init_property_appends(H, t, p) == [H EXCEPT !.prop[t] = @ \o <<p>>]

\* init_property: link a new property at the head of the chain.
init_property(H, t, p) == [H EXCEPT !.prop[t] = <<p>> \o @]

RemoveAt(s, i) == SubSeq(s, 1, i - 1) \o SubSeq(s, i + 1, Len(s))

\* ------------------------------------------------------------------ heap
\* The contents of a block that is not allocated.
NoParentChild == [c |-> null_parent_c, destroying |-> FALSE]
SelfLink(r) == [next |-> r, prev |-> r]

\* The static initialiser of null_parent, with an empty heap (freed blocks
\* hold no meaningful contents).
InitHeap ==
    [live |-> {}, clive |-> {},
     lst |-> [r \in Refs |-> SelfLink(r)],
     prop |-> [h \in Hdrs |->
                 IF h = null_parent
                 THEN <<[type |-> "CHILDREN", c |-> null_parent_c]>>
                 ELSE <<>>],
     parent_child |-> [a \in Addr |-> NoParentChild],
     cparent |-> [k \in AllChildIds |-> null_parent],
     notifiers |-> 0,
     initialized |-> FALSE,
     \* the blocks handed to freefn while they were not allocated
     twice |-> {},
     \* the kinds of property handed to freefn that are not blocks of their own
     notblock |-> {}]

Min(S) == CHOOSE x \in S : \A y \in S : x <= y

\* allocfn: the backend hands out the lowest free address (0 when exhausted).
FreeAddrs(H) == Addr \ H.live
FreeChildIds(H) == ChildIds \ H.clive
NewAddr(H) == IF FreeAddrs(H) = {} THEN NULL ELSE Min(FreeAddrs(H))
NewChildId(H) == IF FreeChildIds(H) = {} THEN NULL ELSE Min(FreeChildIds(H))

\* freefn gives a block back.  The contents of released blocks are forgotten
\* where nothing can read them any more: when the library is idle again,
\* and for a block released by a call that runs no callback.
Scrub(H) ==
    [H EXCEPT
       !.lst = [r \in Refs |->
                  IF (IsHRef(r) /\ r[2] \notin H.live)
                     \/ (~IsHRef(r) /\ r[2] \notin H.clive \cup {null_parent_c})
                  THEN SelfLink(r) ELSE H.lst[r]],
       !.prop = [h \in Hdrs |->
                  IF h \in H.live \cup {null_parent} THEN H.prop[h] ELSE <<>>],
       !.parent_child = [a \in Addr |->
                  IF a \in H.live THEN H.parent_child[a] ELSE NoParentChild],
       !.cparent = [k \in AllChildIds |->
                  IF k \in H.clive \cup {null_parent_c} THEN H.cparent[k]
                  ELSE null_parent]]

to_tal_hdr(ctx) == ctx
to_tal_hdr_or_null(ctx) == IF ctx = NULL THEN null_parent ELSE to_tal_hdr(ctx)
from_tal_hdr(hdr) == hdr

get_destroying_bit(pc) == pc.destroying
set_destroying_bit(pc) == [pc EXCEPT !.destroying = TRUE]
ignore_destroying_bit(pc) == pc.c

\* The children property of a header (its id), or NULL.
find_children(H, t) ==
    LET i == find_property_ptr(H, t, "CHILDREN")
    IN  IF i = 0 THEN NULL ELSE H.prop[t][i].c
HasChildren(H, t) == find_property_ptr(H, t, "CHILDREN") # 0

\* ------------------------------------------------------------ notify
Info(kind, p, s) == [k |-> kind, p |-> p, s |-> s]
NoInfo == Info("none", 0, "")

\* A notify that calls every notifier through u.notifyfn.
Call_as_notifyfn(ctx, type, n, info) ==
    [ctx |-> from_tal_hdr(ctx), type |-> type, fn |-> n.fn,
     seq |-> n.seq, destroy |-> FALSE, info |-> info]

\* One callback invocation as the log records it; seq tells which notifier
\* was called.
Call(ctx, type, n, info) ==
    IF NOTIFY_IS_DESTRUCTOR \in n.types
    THEN [ctx |-> from_tal_hdr(ctx), type |-> type, fn |-> n.fn,
          seq |-> n.seq, destroy |-> TRUE, info |-> NoInfo]
    ELSE [ctx |-> from_tal_hdr(ctx), type |-> type, fn |-> n.fn,
          seq |-> n.seq, destroy |-> FALSE, info |-> info]

\* The position of the first notifier at or after i that subscribes to
\* `type`; the walk stops at a literal.  0 when there is none.
RECURSIVE next_notifier(_, _, _)
next_notifier(chain, type, i) ==
    IF i > Len(chain) THEN 0
    ELSE IF is_literal(chain[i]) THEN 0
    ELSE IF chain[i].type = "NOTIFIER" /\ type \in chain[i].types THEN i
    ELSE next_notifier(chain, type, i + 1)

RECURSIVE notify_from(_, _, _, _, _)
notify_from(H, ctx, type, info, i) ==
    LET j == next_notifier(H.prop[ctx], type, i)
    IN  IF j = 0 THEN <<>>
        ELSE <<Call(ctx, type, H.prop[ctx][j], info)>>
             \o notify_from(H, ctx, type, info, j + 1)

\* notify: the callbacks invoked, in order (callbacks that only observe).
notify(H, ctx, type, info) == notify_from(H, ctx, type, info, 1)

\* `if (notifiers) notify(...)`
notify_if(H, ctx, type, info) ==
    IF H.notifiers # 0 THEN notify(H, ctx, type, info) ELSE <<>>

\* ------------------------------------------------------------ add_child
add_child_property(H, parent, k) ==
    LET H1 == init_property(H, parent, [type |-> "CHILDREN", c |-> k])
    IN  [H1 EXCEPT !.clive = @ \cup {k},
                   !.cparent[k] = parent,
                   !.lst = list_head_init(@, CRef(k))]

\* add_child that forgets `child->parent_child = children`.
add_child_keeps_parent_child(H, parent, child, allocOk) ==
    LET has == HasChildren(H, parent)
        k == IF has THEN find_children(H, parent) ELSE NewChildId(H)
    IN  IF ~has /\ (~allocOk \/ k = NULL)
        THEN [ok |-> FALSE, H |-> H]
        ELSE LET H1 == IF has THEN H ELSE add_child_property(H, parent, k)
             IN  [ok |-> TRUE,
                  H |-> [H1 EXCEPT !.lst = list_add(@, CRef(k), HRef(child))]]

\* add_child that does not look for a children property the parent has.
add_child_always_new(H, parent, child, allocOk) ==
    LET k == NewChildId(H)
    IN  IF ~allocOk \/ k = NULL
        THEN [ok |-> FALSE, H |-> H]
        ELSE LET H1 == add_child_property(H, parent, k)
             IN  [ok |-> TRUE,
                  H |-> [H1 EXCEPT
                           !.lst = list_add(@, CRef(k), HRef(child)),
                           !.parent_child[child] =
                               [c |-> k, destroying |-> FALSE]]]

\* add_child(parent, child); allocOk is whether the backend would serve the
\* allocation of a children property.  Returns [ok, H].
add_child(H, parent, child, allocOk) ==
    LET has == HasChildren(H, parent)
        Hi == IF has THEN H ELSE [H EXCEPT !.initialized = TRUE]
        k == IF has THEN find_children(H, parent) ELSE NewChildId(H)
    IN  IF ~has /\ (~allocOk \/ k = NULL)
        THEN [ok |-> FALSE, H |-> Hi]
        ELSE LET H1 == IF has THEN Hi ELSE add_child_property(Hi, parent, k)
             IN  [ok |-> TRUE,
                  H |-> [H1 EXCEPT
                           !.lst = list_add(@, CRef(k), HRef(child)),
                           !.parent_child[child] =
                               [c |-> k, destroying |-> FALSE]]]

\* ------------------------------------------------------------- sizes
\* size_t is SizeBits wide; the struct sizes are those of an ILP32 build.
SizeBits == 8
SIZE_MAX == 2^SizeBits - 1
Wrap(x) == x % (SIZE_MAX + 1)
HdrSize == 16
LengthSize == 12
LengthAlign == 4

\* adjust_size(&size, count): [ok, size]; divzero marks the division by a
\* zero *size that the wrap test performs when count is not zero.
adjust_size(size, count) ==
    LET extra == HdrSize + LengthSize * 2
    IN  IF count # 0 /\ size = 0
        THEN [ok |-> FALSE, size |-> size, divzero |-> TRUE]
        ELSE IF count # 0 /\ (Wrap(size * count) \div size) # count
        THEN [ok |-> FALSE, size |-> size, divzero |-> FALSE]
        ELSE IF Wrap(Wrap(size * count) + extra) < extra
        THEN [ok |-> FALSE, size |-> Wrap(size * count), divzero |-> FALSE]
        ELSE [ok |-> TRUE, size |-> Wrap(size * count), divzero |-> FALSE]

\* A division by zero is undefined: the call faults, or goes on with some
\* quotient, which the wrap test finds equal to count or not.
adjust_size_outcomes(size, count) ==
    LET a == adjust_size(size, count)
    IN  IF ~a.divzero THEN {[ok |-> a.ok, size |-> a.size, fault |-> FALSE]}
        ELSE {[ok |-> FALSE, size |-> size, fault |-> TRUE],
              [ok |-> FALSE, size |-> size, fault |-> FALSE],
              [ok |-> Wrap(Wrap(size * count) + HdrSize + LengthSize * 2)
                        >= HdrSize + LengthSize * 2,
               size |-> Wrap(size * count), fault |-> FALSE]}

\* extra_for_length(size): the padding up to the alignment of struct length,
\* and the record.
extra_for_length(size) ==
    LET up == Wrap(size + LengthAlign - 1)
        rounded == up - (up % LengthAlign)
    IN  Wrap(Wrap((rounded - size) + SIZE_MAX + 1) + LengthSize)

\* The byte size tal_alloc_arr_ asks allocfn for (tal.c:454-457, 400), and
\* tal_resize_ asks resizefn for (tal.c:696-702), once adjust_size has left
\* `size`; has_length is add_count, or whether the node has a LENGTH.
request_size(size, has_length) ==
    Wrap(HdrSize + Wrap(size + (IF has_length THEN extra_for_length(size)
                                ELSE 0)))

\* Where the length record is written, as an offset from the payload start:
\* tal_alloc_arr_ takes the last sizeof(struct length) bytes of the padded
\* size (tal.c:463), tal_resize_ the address right after the size * count
\* payload bytes (tal.c:712).
length_offset(op, size) ==
    IF op = "tal_alloc_arr_"
    THEN Wrap(Wrap(size + extra_for_length(size)) + (SIZE_MAX + 1 - LengthSize))
    ELSE size

\* ------------------------------------------------------------- results
\* What a completed call leaves behind: the new heap, the return value
\* (pointers as addresses, booleans as 1/0), the message given to the error
\* hook, the callbacks invoked, and what *ctxp holds (tal_resize_).
Result(H, ret, err, calls, ctxp) ==
    [H |-> H, ret |-> ret, err |-> err, calls |-> calls, ctxp |-> ctxp]

LabelChain(label) ==
    IF label = "" THEN <<>> ELSE <<[type |-> "literal", name |-> label]>>

\* tal_alloc_(ctx, size, clear, label); label "" stands for a NULL label.
tal_alloc_(H, ctx, label, okHdr, okChild) ==
    LET parent == to_tal_hdr_or_null(ctx)
        child == NewAddr(H)
    IN  IF ~okHdr \/ child = NULL
        THEN Result(H, NULL, "allocation failed", <<>>, NULL)
        ELSE LET H1 == [H EXCEPT !.live = @ \cup {child},
                                 !.prop[child] = LabelChain(label)]
                 r == add_child(H1, parent, child, okChild)
             IN  IF ~r.ok
                 THEN Result(Scrub([r.H EXCEPT !.live = @ \ {child}]), NULL,
                             "allocation failed", <<>>, NULL)
                 ELSE Result(r.H, from_tal_hdr(child), "",
                             notify_if(r.H, parent, "ADD_CHILD",
                                       Info("ptr", from_tal_hdr(child), "")),
                             NULL)

\* tal_alloc_arr_(ctx, size, count, clear, add_count, label)
tal_alloc_arr_(H, ctx, size, count, add_count, label, okHdr, okChild) ==
    LET a == adjust_size(size, count)
    IN  IF ~a.ok
        THEN Result(H, NULL, "allocation size overflow", <<>>, NULL)
        ELSE LET r == tal_alloc_(H, ctx, label, okHdr, okChild)
             IN  IF r.ret = NULL \/ ~add_count THEN r
                 ELSE [r EXCEPT !.H = init_property(r.H, to_tal_hdr(r.ret),
                                   [type |-> "LENGTH", count |-> count])]

\* tal_count(ptr)
tal_count(H, ptr) ==
    LET i == find_property_ptr(H, to_tal_hdr(ptr), "LENGTH")
    IN  IF i = 0 THEN 0 ELSE H.prop[to_tal_hdr(ptr)][i].count

\* tal_parent(ctx)
tal_parent(H, ctx) ==
    IF ctx = NULL THEN NULL
    ELSE LET par == H.cparent[ignore_destroying_bit(
                                 H.parent_child[to_tal_hdr(ctx)])]
         IN  IF par = null_parent THEN NULL ELSE from_tal_hdr(par)

\* tal_steal_ that forgets to unlink ctx from its old parent.
tal_steal_no_unlink(H, new_parent, ctx, okChild) ==
    LET newpar == to_tal_hdr_or_null(new_parent)
        t == to_tal_hdr(ctx)
        r == add_child(H, newpar, t, okChild)
    IN  IF ~r.ok THEN Result(H, NULL, "allocation failed", <<>>, NULL)
        ELSE Result(r.H, ctx, "",
                    notify_if(r.H, t, "STEAL", Info("ptr", new_parent, "")),
                    NULL)

\* tal_steal_ that gives up without putting ctx back under its old parent.
tal_steal_no_reattach(H, new_parent, ctx, okChild) ==
    IF ctx = NULL THEN Result(H, ctx, "", <<>>, NULL)
    ELSE
    LET newpar == to_tal_hdr_or_null(new_parent)
        t == to_tal_hdr(ctx)
        H1 == [H EXCEPT !.lst = list_del(@, HRef(t))]
        r == add_child(H1, newpar, t, okChild)
    IN  IF ~r.ok
        THEN Result(r.H, NULL, "allocation failed", <<>>, NULL)
        ELSE Result(r.H, ctx, "",
                    notify_if(r.H, t, "STEAL", Info("ptr", new_parent, "")),
                    NULL)

\* tal_steal_(new_parent, ctx)
tal_steal_(H, new_parent, ctx, okChild) ==
    IF ctx = NULL THEN Result(H, ctx, "", <<>>, NULL)
    ELSE
    LET newpar == to_tal_hdr_or_null(new_parent)
        t == to_tal_hdr(ctx)
        H1 == [H EXCEPT !.lst = list_del(@, HRef(t))]
        old_parent == H1.cparent[ignore_destroying_bit(H1.parent_child[t])]
        r == add_child(H1, newpar, t, okChild)
    IN  IF ~r.ok
        THEN \* The old parent is asked for no allocation; abort() otherwise.
             LET b == add_child(r.H, old_parent, t, FALSE)
             IN  Result(b.H, NULL,
                        IF b.ok THEN "allocation failed" ELSE "abort",
                        <<>>, NULL)
        ELSE Result(r.H, ctx, "",
                    notify_if(r.H, t, "STEAL", Info("ptr", new_parent, "")),
                    NULL)

\* tal_set_name_ that leaves the old name in the chain.
tal_set_name_keeps_old(H, ctx, name, literal, okAlloc) ==
    LET t == to_tal_hdr(ctx)
    IN  IF literal /\ name # ""
        THEN LET H2 == [H EXCEPT !.prop[t] =
                           @ \o <<[type |-> "literal", name |-> name]>>]
             IN  Result(H2, 1, "",
                        notify_if(H2, t, "RENAME", Info("name", 0, name)),
                        NULL)
        ELSE IF ~okAlloc
        THEN Result(H, 0, "allocation failed", <<>>, NULL)
        ELSE LET H2 == init_property(H, t, [type |-> "NAME", name |-> name])
             IN  Result(H2, 1, "",
                        notify_if(H2, t, "RENAME", Info("name", 0, name)),
                        NULL)

\* tal_set_name_(ctx, name, literal)
tal_set_name_(H, ctx, name, literal, okAlloc) ==
    LET t == to_tal_hdr(ctx)
        i == find_property_ptr(H, t, "NAME")
        \* Get rid of any old name.
        H1 == IF i = 0 THEN H ELSE [H EXCEPT !.prop[t] = RemoveAt(@, i)]
    IN  IF literal /\ name # ""
        THEN LET H2 == [H1 EXCEPT !.prop[t] =
                           @ \o <<[type |-> "literal", name |-> name]>>]
             IN  Result(H2, 1, "",
                        notify_if(H2, t, "RENAME", Info("name", 0, name)),
                        NULL)
        ELSE IF ~okAlloc
        THEN Result(H1, 0, "allocation failed", <<>>, NULL)
        ELSE LET H2 == init_property(H1, t, [type |-> "NAME", name |-> name])
             IN  Result(H2, 1, "",
                        notify_if(H2, t, "RENAME", Info("name", 0, name)),
                        NULL)

\* tal_name(t): [kind, name]; kind tells which storage the returned pointer
\* designates: the caller's literal, the NAME property's copy, or none (NULL).
tal_name(H, ctx) ==
    LET t == to_tal_hdr(ctx)
        i == find_property_ptr(H, t, "NAME")
    IN  IF i = 0 THEN [kind |-> "NULL", name |-> ""]
        ELSE IF is_literal(H.prop[t][i])
        THEN [kind |-> "literal", name |-> H.prop[t][i].name]
        ELSE [kind |-> "copy", name |-> H.prop[t][i].name]

\* add_notifier_property(t, types, fn); seq numbers the additions.
add_notifier_property(H, t, types, fn, seq) ==
    init_property(H, t, [type |-> "NOTIFIER", types |-> types, fn |-> fn,
                         seq |-> seq])

\* tal_add_destructor_(ctx, destroy)
tal_add_destructor_(H, ctx, destroy, seq, okAlloc) ==
    IF ~okAlloc THEN Result(H, 0, "allocation failed", <<>>, NULL)
    ELSE Result(add_notifier_property(H, to_tal_hdr(ctx),
                    {"FREE", NOTIFY_IS_DESTRUCTOR}, destroy, seq),
                1, "", <<>>, NULL)

\* tal_add_notifier_ that sets the types before it notifies.
tal_add_notifier_types_first(H, ctx, types, callback, seq, okAlloc) ==
    LET t == to_tal_hdr(ctx)
    IN  IF ~okAlloc THEN Result(H, 0, "allocation failed", <<>>, NULL)
        ELSE LET H1 == add_notifier_property(H, t, types, callback, seq)
                 calls == notify_if(H1, t, "ADD_NOTIFIER",
                                    Info("fn", 0, callback))
             IN  Result(IF types # {"FREE"}
                        THEN [H1 EXCEPT !.notifiers = Wrap(@ + 1)] ELSE H1,
                        1, "", calls, NULL)

\* tal_add_notifier_(ctx, types, callback)
tal_add_notifier_(H, ctx, types, callback, seq, okAlloc) ==
    LET t == to_tal_hdr(ctx)
    IN  IF ~okAlloc THEN Result(H, 0, "allocation failed", <<>>, NULL)
        ELSE LET H1 == add_notifier_property(H, t, {}, callback, seq)
                 calls == notify_if(H1, t, "ADD_NOTIFIER",
                                    Info("fn", 0, callback))
                 H2 == [H1 EXCEPT !.prop[t][1].types = types]
             IN  Result(IF types # {"FREE"}
                        THEN [H2 EXCEPT !.notifiers = Wrap(@ + 1)] ELSE H2,
                        1, "", calls, NULL)

\* del_notifier_property: the position of the first notifier with this
\* callback (0 when there is none).
RECURSIVE find_notifier(_, _, _)
find_notifier(chain, fn, i) ==
    IF i > Len(chain) THEN 0
    ELSE IF is_literal(chain[i]) THEN 0
    ELSE IF chain[i].type = "NOTIFIER" /\ chain[i].fn = fn THEN i
    ELSE find_notifier(chain, fn, i + 1)

\* tal_del_notifier_(ctx, callback), also tal_del_destructor_
tal_del_notifier_(H, ctx, callback) ==
    LET t == to_tal_hdr(ctx)
        i == find_notifier(H.prop[t], callback, 1)
        types == IF i = 0 THEN {}
                 ELSE H.prop[t][i].types \ {NOTIFY_IS_DESTRUCTOR}
        H1 == IF i = 0 THEN H ELSE [H EXCEPT !.prop[t] = RemoveAt(@, i)]
    IN  IF types # {}
        THEN Result(IF types # {"FREE"}
                    THEN [H1 EXCEPT !.notifiers = Wrap(@ - 1)] ELSE H1,
                    1, "",
                    notify(H1, t, "DEL_NOTIFIER", Info("fn", 0, callback)),
                    NULL)
        ELSE Result(H1, 0, "", <<>>, NULL)

\* The header t moved by the backend to the address nt: the block's bytes
\* are copied and the old block is released.
Relocate(H, t, nt) ==
    Scrub([H EXCEPT !.live = (@ \ {t}) \cup {nt},
                    !.lst[HRef(nt)] = H.lst[HRef(t)],
                    !.prop[nt] = H.prop[t],
                    !.parent_child[nt] = H.parent_child[t]])

\* The fix-up without the children property's parent pointer.
resize_fixup_list_only(H, t) ==
    LET L0 == H.lst
        L1 == [L0 EXCEPT ![L0[HRef(t)].prev].next = HRef(t)]
        L2 == [L1 EXCEPT ![L1[HRef(t)].next].prev = HRef(t)]
    IN  [H EXCEPT !.lst = L2]

\* tal_resize_, lines 726-736: fix up the list neighbours and the children
\* property after a move.
resize_fixup(H, t) ==
    LET L0 == H.lst
        L1 == [L0 EXCEPT ![L0[HRef(t)].prev].next = HRef(t)]
        L2 == [L1 EXCEPT ![L1[HRef(t)].next].prev = HRef(t)]
        k == find_children(H, t)
    IN  [H EXCEPT !.lst = L2,
                  !.cparent = IF k = NULL THEN @ ELSE [@ EXCEPT ![k] = t]]

\* The length record carried over with the count it had.
resize_length_keeps_count(H, t, count) == H

\* tal_resize_, lines 709-722: the length record is written at the new tail
\* with the new count and spliced back in at its place in the chain.
resize_length(H, t, count) ==
    LET i == find_property_ptr(H, t, "LENGTH")
    IN  IF i = 0 THEN H ELSE [H EXCEPT !.prop[t][i].count = count]

\* tal_resize_(ctxp, size, count); outcome is what resizefn does: "fail",
\* "inplace" (same address) or "move" (the lowest free address).
tal_resize_(H, ctx, size, count, outcome) ==
    LET old_t == to_tal_hdr(ctx)
        a == adjust_size(size, count)
        nt == IF outcome = "move" THEN NewAddr(H) ELSE old_t
    IN  IF ~a.ok
        THEN Result(H, 0, "allocation size overflow", <<>>, ctx)
        ELSE IF outcome = "fail" \/ nt = NULL
        THEN Result(H, 0, "Reallocation failure", <<>>, ctx)
        ELSE LET H1 == IF nt = old_t THEN H ELSE Relocate(H, old_t, nt)
                 H2 == resize_length(H1, nt, count)
                 H3 == IF nt = old_t THEN H2 ELSE resize_fixup(H2, nt)
                 moved == IF nt = old_t THEN <<>>
                          ELSE notify_if(H3, nt, "MOVE",
                                         Info("ptr", from_tal_hdr(old_t), ""))
             IN  Result(H3, 1, "",
                        moved \o notify_if(H3, nt, "RESIZE",
                                           Info("size", a.size, "")),
                        from_tal_hdr(nt))

\* ------------------------------------------------------------ traversal
\* The entries of a list from r up to the head, as header addresses.
RECURSIVE Walk(_, _, _, _)
Walk(H, r, head, fuel) ==
    IF r = head \/ fuel = 0 \/ ~IsHRef(r) THEN <<>>
    ELSE <<r[2]>> \o Walk(H, H.lst[r].next, head, fuel - 1)

\* The children list of the children property k, in list order.
Children(H, k) == Walk(H, H.lst[CRef(k)].next, CRef(k), MaxAddr + 1)

\* The children of the header t, in list order.
ChildrenOf(H, t) ==
    IF HasChildren(H, t) THEN Children(H, find_children(H, t)) ELSE <<>>

Elems(q) == {q[i] : i \in 1..Len(q)}
Count(x, q) == Cardinality({i \in 1..Len(q) : q[i] = x})
Without(q, x) == SelectSeq(q, LAMBDA y : y # x)

\* The header that owns the children property a node's parent_child names.
ParentHdr(H, n) == H.cparent[ignore_destroying_bit(H.parent_child[n])]

\* The nodes below t: what the children lists reach from it.
RECURSIVE Below(_, _, _)
Below(H, S, fuel) ==
    LET T == S \cup UNION {Elems(ChildrenOf(H, n)) : n \in S}
    IN  IF T = S \/ fuel = 0 THEN S ELSE Below(H, T, fuel - 1)
Desc(H, t) == Below(H, Elems(ChildrenOf(H, t)), MaxAddr)

\* What a call returns when it runs off the tree: it dereferences the NULL
\* parent_child of null_parent, reads a list head as a node, or never ends.
Undefined == 0 - 1

\* first_child(parent)
first_child(H, parent) ==
    IF ~HasChildren(H, parent) THEN NULL
    ELSE list_top(H.lst, CRef(find_children(H, parent)))

\* tal_first(root)
tal_first(H, root) ==
    LET c == first_child(H, to_tal_hdr_or_null(root))
    IN  IF c = NULL THEN NULL ELSE from_tal_hdr(c)

\* tal_next, lines 654-667: the next sibling of t, or of the nearest
\* ancestor below top that has one; NULL when the climb arrives at top.
RECURSIVE tal_next_up(_, _, _, _)
tal_next_up(H, top, t, fuel) ==
    IF fuel = 0 \/ t = null_parent THEN Undefined
    ELSE LET k == ignore_destroying_bit(H.parent_child[t])
             end == CRef(k)
             next == H.lst[HRef(t)].next
         IN  IF next # end
             THEN IF IsHRef(next) THEN from_tal_hdr(next[2]) ELSE Undefined
             ELSE IF H.cparent[k] = top THEN NULL
             ELSE tal_next_up(H, top, H.cparent[k], fuel - 1)

\* tal_next(root, prev)
tal_next(H, root, prev) ==
    LET t == to_tal_hdr(prev)
        c == first_child(H, t)
    IN  IF c # NULL THEN from_tal_hdr(c)
        ELSE tal_next_up(H, to_tal_hdr_or_null(root), t, MaxAddr + 1)

\* ------------------------------------------------------- tal_free, del_tree
\* A block that has been given back to the backend.
IsFreed(H, r) ==
    IF IsHRef(r) THEN r[2] \notin H.live
    ELSE r[2] \notin H.clive \cup {null_parent_c}

\* A frame of the call stack: del_tree(t, orig) at a program point, or a
\* FREE callback running for node t, with the number of library calls it has
\* made and the latest of them.
NoCall == [op |-> "", ctx |-> NULL]
Frame(fn, t, orig, pc, i, calls) ==
    [fn |-> fn, t |-> t, orig |-> orig, pc |-> pc, i |-> i, calls |-> calls,
     nested |-> NoCall]
Top == stack[Len(stack)]
Pop == SubSeq(stack, 1, Len(stack) - 1)

\* tal_free(ctx), lines 472-479: DEL_CHILD on the parent, then list_del.
tal_free_head(H, ctx) ==
    LET t == to_tal_hdr(ctx)
        parent == H.cparent[ignore_destroying_bit(H.parent_child[t])]
    IN  [H |-> [H EXCEPT !.lst = list_del(@, HRef(t))],
         calls |-> notify_if(H, parent, "DEL_CHILD", Info("ptr", ctx, ""))]

\* The blocks tal_free(ctx) reads or writes before it calls del_tree.
tal_free_touches(H, ctx) ==
    LET t == to_tal_hdr(ctx)
        k == ignore_destroying_bit(H.parent_child[t])
    IN  {H.lst[HRef(t)].next, H.lst[HRef(t)].prev}
        \cup (IF H.notifiers # 0 THEN {CRef(k)} ELSE {})
        \cup (IF H.notifiers # 0 /\ H.cparent[k] # null_parent
              THEN {HRef(H.cparent[k])} ELSE {})

\* A use of a released block is undefined: the call either goes on with
\* whatever the block still holds, or faults.
Outcomes(H, S) ==
    IF \E r \in S : IsFreed(H, r) THEN {"go", "fault"} ELSE {"go"}

\* del_tree, lines 365-369.
del_tree_enter(H, t) ==
    [H EXCEPT !.parent_child[t] = set_destroying_bit(@)]

\* del_tree, lines 386-392: the properties the final loop hands to freefn,
\* in chain order: all up to a literal name, except LENGTH.
RECURSIVE props_freed(_, _)
props_freed(chain, i) ==
    IF i > Len(chain) THEN <<>>
    ELSE IF is_literal(chain[i]) THEN <<>>
    ELSE IF chain[i].type # "LENGTH"
    THEN <<chain[i]>> \o props_freed(chain, i + 1)
    ELSE props_freed(chain, i + 1)

\* del_tree that leaves the children property allocated.
del_tree_release_keeps_children(H, t) == [H EXCEPT !.live = @ \ {t}]

\* del_tree, lines 386-393: release the properties and the header.
del_tree_release(H, t) ==
    LET k == find_children(H, t)
        freed == props_freed(H.prop[t], 1)
    IN  [H EXCEPT !.live = @ \ {t},
                  !.clive = IF k = NULL THEN @ ELSE @ \ {k},
                  !.twice = @ \cup (IF t \in H.live THEN {} ELSE {HRef(t)})
                              \cup (IF k = NULL \/ k \in H.clive THEN {}
                                    ELSE {CRef(k)}),
                  !.notblock = @ \cup {freed[i].type : i \in
                                         {j \in 1..Len(freed) :
                                            freed[j].type \in
                                              {"LENGTH", "literal"}}}]

\* A loop that finds no child to destroy.
del_tree_top_none(H, t) == NULL

\* del_tree, lines 375-380: the child the loop takes next (NULL: none).
del_tree_top(H, t) ==
    LET k == find_children(H, t)
    IN  IF k = NULL THEN NULL ELSE list_top(H.lst, CRef(k))

\* A configuration is the heap, the call stack and the callbacks invoked.
Config(H, stk, lg) == [H |-> H, stk |-> stk, log |-> lg]
CTop(c) == c.stk[Len(c.stk)]
CPop(c) == SubSeq(c.stk, 1, Len(c.stk) - 1)

\* A del_tree that never takes the early return.
del_tree_always_proceeds(H, t) == FALSE

\* del_tree, lines 365-366: the node is already being destroyed.
del_tree_returns_early(H, t) == get_destroying_bit(H.parent_child[t])

\* One step of the del_tree frame on top of the stack.
del_tree_step(c) ==
    LET f == CTop(c)
        t == f.t
        H == c.H
    IN  CASE f.pc = "enter" ->
               IF del_tree_returns_early(H, t)
               THEN Config(H, CPop(c), c.log)
               ELSE Config(del_tree_enter(H, t),
                           CPop(c) \o <<[f EXCEPT !.pc = "notify", !.i = 1]>>,
                           c.log)
          [] f.pc = "notify" ->
               LET j == next_notifier(H.prop[t], "FREE", f.i)
               IN  IF j = 0
                   THEN Config(H, CPop(c) \o <<[f EXCEPT !.pc = "children"]>>,
                               c.log)
                   ELSE Config(H,
                               CPop(c) \o <<[f EXCEPT !.i = j + 1],
                                            Frame("cb", t, f.orig, "run", 0, 0)>>,
                               Append(c.log, Call(t, "FREE", H.prop[t][j],
                                                  Info("ptr", f.orig, ""))))
          [] f.pc = "children" ->
               LET i == del_tree_top(H, t)
               IN  IF i = NULL
                   THEN Config(del_tree_release(H, t), CPop(c), c.log)
                   ELSE Config([H EXCEPT !.lst = list_del(@, HRef(i))],
                               c.stk \o <<Frame("del_tree", i, f.orig,
                                                "enter", 0, 0)>>,
                               c.log)

\* The blocks the next step of del_tree reads or writes.
del_tree_touches(c) ==
    LET f == CTop(c)
        i == del_tree_top(c.H, f.t)
    IN  IF f.pc = "enter" THEN {HRef(f.t)}
        ELSE IF f.pc = "children" /\ i # NULL
        THEN {HRef(i), c.H.lst[HRef(i)].next, c.H.lst[HRef(i)].prev}
        ELSE {}

\* del_tree runs on its own until a callback is invoked, the outermost call
\* returns, or its next step would use a released block.
Paused(c) ==
    \/ c.stk = <<>>
    \/ CTop(c).fn = "cb"
    \/ \E r \in del_tree_touches(c) : IsFreed(c.H, r)

RECURSIVE Run(_)
Run(c) == IF Paused(c) THEN c ELSE Run(del_tree_step(c))

\* The state a completed top-level call leaves.
Finish(c) == IF c.stk = <<>> THEN Scrub(c.H) ELSE c.H

Resume(c) ==
    LET d == Run(c)
    IN  /\ heap' = Finish(d)
        /\ stack' = d.stk
        /\ log' = d.log

\* A FREE callback returns.
CbReturn ==
    /\ ~crashed
    /\ stack # <<>>
    /\ Top.fn = "cb"
    /\ Resume(Config(heap, Pop, log))
    /\ UNCHANGED <<last, crashed>>

\* The running FREE callback calls tal_free(y) on a node that has not been
\* released: lines 472-479, then del_tree runs up to the next callback.
CbFree ==
    /\ ~crashed
    /\ stack # <<>>
    /\ Top.fn = "cb"
    /\ Top.calls < MaxCbCalls
    /\ \E y \in heap.live :
         \E o \in Outcomes(heap, tal_free_touches(heap, y)) :
           LET stk == Pop \o <<[Top EXCEPT
                                  !.calls = @ + 1,
                                  !.nested = [op |-> "tal_free", ctx |-> y]]>>
               r == tal_free_head(heap, y)
           IN  IF o = "fault"
               THEN /\ crashed' = TRUE
                    /\ stack' = stk
                    /\ UNCHANGED <<heap, log, last>>
               ELSE /\ Resume(Config(r.H,
                          stk \o <<Frame("del_tree", to_tal_hdr(y), y,
                                         "enter", 0, 0)>>,
                          log \o r.calls))
                    /\ UNCHANGED <<last, crashed>>

\* del_tree is about to use a released block: it faults ...
Fault ==
    /\ ~crashed
    /\ stack # <<>>
    /\ Top.fn = "del_tree"
    /\ crashed' = TRUE
    /\ UNCHANGED <<heap, stack, log, last>>

\* ... or goes on with what the block still holds.
GoOn ==
    /\ ~crashed
    /\ stack # <<>>
    /\ Top.fn = "del_tree"
    /\ Resume(del_tree_step(Config(heap, stack, log)))
    /\ UNCHANGED <<last, crashed>>

\* ------------------------------------------------------------ the calls
Last(op, ctx, arg, ret, err, ctxp) ==
    [op |-> op, ctx |-> ctx, arg |-> arg, ret |-> ret, err |-> err,
     ctxp |-> ctxp]

\* Some live structure still points into a released block.
Dangling(H) ==
    \/ \E a \in H.live :
         \/ IsFreed(H, H.lst[HRef(a)].next)
         \/ IsFreed(H, H.lst[HRef(a)].prev)
         \/ IsFreed(H, CRef(H.parent_child[a].c))
    \/ \E k \in H.clive \cup {null_parent_c} :
         \/ IsFreed(H, H.lst[CRef(k)].next)
         \/ IsFreed(H, H.lst[CRef(k)].prev)

\* The application calls the library only when no call is in progress; the
\* exploration stops once the heap holds a dangling pointer.
Idle == stack = <<>> /\ ~crashed /\ ~Dangling(heap)

Names == {"", "n"}
Callbacks == {"f", "g"}
Masks == {{"FREE"}, NotifyTypes}
ElemSizes == {1, SIZE_MAX}
\* What resizefn may do: fail, keep the block where it is, or move it.
ResizeOutcomes == {"fail", "inplace", "move"}

\* The sequence numbers of the notifiers now in the heap.
NotifierSeqs(H) ==
    {H.prop[p[1]][p[2]].seq :
       p \in {q \in H.live \X (1..(MaxNotifiers + 2)) :
                /\ q[2] <= Len(H.prop[q[1]])
                /\ H.prop[q[1]][q[2]].type = "NOTIFIER"}}
NextSeq(H) == IF NotifierSeqs(H) = {} THEN 1
              ELSE 1 + CHOOSE m \in NotifierSeqs(H) :
                         \A n \in NotifierSeqs(H) : n <= m

\* A completed call: the heap, the callbacks it invoked and its result.
Done(r, op, ctx, arg) ==
    /\ heap' = r.H
    /\ log' = r.calls
    /\ last' = Last(op, ctx, arg, r.ret, r.err, r.ctxp)
    /\ UNCHANGED <<stack, crashed>>

\* What the backend may answer to the allocation of a children property for
\* ctx: it is asked only when ctx has none and the call got that far.
AllocAnswers(H, ctx, sofar) ==
    IF sofar /\ ~HasChildren(H, to_tal_hdr_or_null(ctx)) THEN BOOLEAN
    ELSE {TRUE}

\* The application's calls.  Each draws its arguments, and what the backend
\* answers, from small sets; maxLive bounds the nodes a behaviour keeps live.
Alloc(labels, maxLive) ==
    /\ Idle
    /\ Cardinality(heap.live) < maxLive
    /\ \E ctx \in heap.live \cup {NULL}, label \in labels,
          okHdr \in BOOLEAN :
         \E okChild \in AllocAnswers(heap, ctx, okHdr) :
           Done(tal_alloc_(heap, ctx, label, okHdr, okChild),
                "tal_alloc_", ctx, 0)

AllocArr(sizes, counts, adds, maxLive) ==
    /\ Idle
    /\ Cardinality(heap.live) < maxLive
    /\ \E ctx \in heap.live \cup {NULL}, size \in sizes,
          count \in counts, add_count \in adds, okHdr \in BOOLEAN :
         \E okChild \in AllocAnswers(heap, ctx, okHdr) :
           Done(tal_alloc_arr_(heap, ctx, size, count, add_count, "", okHdr,
                               okChild),
                "tal_alloc_arr_", ctx,
                [count |-> count, add_count |-> add_count])

Steal ==
    /\ Idle
    /\ \E new_parent \in heap.live \cup {NULL}, ctx \in heap.live :
         \E okChild \in AllocAnswers(heap, new_parent, TRUE) :
         Done(tal_steal_(heap, new_parent, ctx, okChild),
              "tal_steal_", ctx, new_parent)

Resize(sizes, counts, outcomes) ==
    /\ Idle
    /\ \E ctx \in heap.live, size \in sizes, count \in counts,
          outcome \in outcomes :
         Done(tal_resize_(heap, ctx, size, count, outcome),
              "tal_resize_", ctx, count)

SetName(names) ==
    /\ Idle
    /\ \E ctx \in heap.live, name \in names, literal \in BOOLEAN,
          okAlloc \in BOOLEAN :
         Done(tal_set_name_(heap, ctx, name, literal, okAlloc),
              "tal_set_name_", ctx, [name |-> name, literal |-> literal])

\* At most maxSeq notifiers are kept on live nodes, and no notifier is added
\* once the counter has reached maxCount.
AddNotifierWithin(masks, callbacks, maxSeq, maxCount) ==
    /\ Idle
    /\ NextSeq(heap) <= maxSeq
    /\ heap.notifiers < maxCount
    /\ \E ctx \in heap.live, types \in masks, callback \in callbacks,
          okAlloc \in BOOLEAN :
         Done(tal_add_notifier_(heap, ctx, types, callback, NextSeq(heap),
                                okAlloc),
              "tal_add_notifier_", ctx, 0)

AddNotifierUpTo(masks, callbacks, max) ==
    AddNotifierWithin(masks, callbacks, max, max)

AddNotifier(masks, callbacks) ==
    AddNotifierUpTo(masks, callbacks, MaxNotifierAdds)

AddDestructor(callbacks) ==
    /\ Idle
    /\ NextSeq(heap) <= MaxNotifierAdds
    /\ \E ctx \in heap.live, destroy \in callbacks, okAlloc \in BOOLEAN :
         Done(tal_add_destructor_(heap, ctx, destroy, NextSeq(heap), okAlloc),
              "tal_add_destructor_", ctx, 0)

DelNotifierOf(callbacks) ==
    /\ Idle
    /\ \E ctx \in heap.live, callback \in callbacks :
         Done(tal_del_notifier_(heap, ctx, callback),
              "tal_del_notifier_", ctx, 0)

DelNotifier == DelNotifierOf(Callbacks)

\* The subtree of ctx as a call finds it: ctx and its descendants, and the
\* parent of each.
Snapshot(H, ctx) ==
    LET doomed == Desc(H, to_tal_hdr(ctx)) \cup {to_tal_hdr(ctx)}
    IN  [doomed |-> doomed, parent |-> [n \in doomed |-> ParentHdr(H, n)]]

\* tal_free(ctx) called by the application; the record of the call keeps
\* the subtree it was given.
Free ==
    /\ Idle
    /\ \E ctx \in heap.live :
         LET r == tal_free_head(heap, ctx)
         IN  /\ Resume(Config(r.H,
                   <<Frame("del_tree", to_tal_hdr(ctx), ctx, "enter", 0, 0)>>,
                   r.calls))
             /\ last' = Last("tal_free", ctx, Snapshot(heap, ctx),
                              NULL, "", NULL)
             /\ UNCHANGED crashed

Init ==
    /\ heap = InitHeap
    /\ stack = <<>>
    /\ log = <<>>
    /\ last = Last("", NULL, 0, NULL, "", NULL)
    /\ crashed = FALSE

\* ------------------------------------------------- the tree operations
AllocNode == AllocArr({1}, {1}, {TRUE}, MaxLive)
ResizeNode == Resize({1}, {1}, ResizeOutcomes)

Next == AllocNode \/ Steal \/ ResizeNode \/ Free

Spec == Init /\ [][Next]_vars

\* ---------------------------------------------------------------- C1
\* C1: once every call has completed, each live node is linked exactly once in
\* exactly one children list, the list of the children property its
\* parent_child names (destroying bit masked off); that property is the one
\* in its owner's chain, and the node's list neighbours point back at it.
LinkedOnce(H, n) ==
    LET k == ignore_destroying_bit(H.parent_child[n])
    IN  /\ k \in H.clive \cup {null_parent_c}
        /\ Count(n, Children(H, k)) = 1
        /\ \A k2 \in (H.clive \cup {null_parent_c}) \ {k} :
               Count(n, Children(H, k2)) = 0
        /\ H.cparent[k] \in H.live \cup {null_parent}
        /\ find_children(H, H.cparent[k]) = k
        /\ H.lst[H.lst[HRef(n)].next].prev = HRef(n)
        /\ H.lst[H.lst[HRef(n)].prev].next = HRef(n)

C1_TreeInvariant ==
    stack = <<>> => \A n \in heap.live : LinkedOnce(heap, n)

\* Three live nodes, one of them two levels deep, after a successful steal.
C1_Witness ==
    /\ stack = <<>>
    /\ Cardinality(heap.live) = 3
    /\ last.op = "tal_steal_" /\ last.ret # NULL
    /\ \E n \in heap.live : ParentHdr(heap, n) \in heap.live
                            /\ ParentHdr(heap, ParentHdr(heap, n)) = null_parent

\* ---------------------------------------------------------------- C4
\* C4: once every call has completed, following parent links from any live
\* node reaches the sentinel root.
RECURSIVE ReachesRoot(_, _, _)
ReachesRoot(H, n, fuel) ==
    IF n = null_parent THEN TRUE
    ELSE IF fuel = 0 THEN FALSE
    ELSE ReachesRoot(H, ParentHdr(H, n), fuel - 1)

C4_Acyclic ==
    stack = <<>> => \A n \in heap.live : ReachesRoot(heap, n, MaxAddr)

\* ---------------------------------------------------------------- C3
StealDone == last'.op = "tal_steal_" /\ last'.ret # NULL

\* C3 as stated: after a successful tal_steal_(B, A) the descendants of A are
\* the same, in the same order; tal_parent(A) is B; A is no longer in the
\* children list of the parent it had before.
C3_StealAsStated ==
    [][StealDone =>
         LET A == last'.ctx
             B == last'.arg
             oldpar == ParentHdr(heap, A)
         IN  /\ Desc(heap', A) = Desc(heap, A)
             /\ \A n \in Desc(heap, A) \cup {A} :
                    ChildrenOf(heap', n) = ChildrenOf(heap, n)
             /\ tal_parent(heap', A) = B
             /\ A \notin Elems(ChildrenOf(heap', oldpar))]_vars

\* C3, amended: after a successful tal_steal_(B, A), tal_parent(A) is B and A
\* is the first child of B; A has left the children list of its former
\* parent unless B is that parent; every other children list is as it was;
\* and the descendants of A are the same, in the same order, unless B or the
\* former parent lies in A's own subtree.
C3_Steal ==
    [][StealDone =>
         LET A == last'.ctx
             B == last'.arg
             newpar == to_tal_hdr_or_null(B)
             oldpar == ParentHdr(heap, A)
             sub == Desc(heap, A) \cup {A}
         IN  /\ tal_parent(heap', A) = B
             /\ ChildrenOf(heap', newpar)
                  = <<A>> \o Without(ChildrenOf(heap, newpar), A)
             /\ oldpar # newpar =>
                  /\ A \notin Elems(ChildrenOf(heap', oldpar))
                  /\ ChildrenOf(heap', oldpar)
                       = Without(ChildrenOf(heap, oldpar), A)
             /\ \A n \in (heap.live \cup {null_parent}) \ {oldpar, newpar} :
                    ChildrenOf(heap', n) = ChildrenOf(heap, n)
             /\ (newpar \notin sub /\ oldpar \notin sub) =>
                  /\ Desc(heap', A) = Desc(heap, A)
                  /\ \A n \in sub :
                         ChildrenOf(heap', n) = ChildrenOf(heap, n)]_vars

\* A node with a child has been stolen by a node that is not the root.
C3_Witness ==
    /\ last.op = "tal_steal_" /\ last.ret # NULL /\ last.arg # NULL
    /\ last.arg # last.ctx
    /\ ChildrenOf(heap, last.ctx) # <<>>
    /\ tal_parent(heap, last.ctx) = last.arg
    /\ last.arg \notin Desc(heap, last.ctx)

\* ---------------------------------------------------------------- C9
\* C9: after a tal_resize_ that moved the node, both list neighbours of the
\* new header point at it, nothing live points at the old header, the
\* children property (if any) has the new header as parent, tal_parent of
\* every child is the new user pointer, and *ctxp is the new user pointer.
C9_ResizeMove ==
    (last.op = "tal_resize_" /\ last.ret = 1 /\ last.ctxp # last.ctx) =>
        LET t == to_tal_hdr(last.ctxp)
            old == to_tal_hdr(last.ctx)
            k == find_children(heap, t)
        IN  /\ t \in heap.live /\ old \notin heap.live
            /\ heap.lst[heap.lst[HRef(t)].next].prev = HRef(t)
            /\ heap.lst[heap.lst[HRef(t)].prev].next = HRef(t)
            /\ \A r \in Refs : ~IsFreed(heap, r) =>
                   /\ heap.lst[r].next # HRef(old)
                   /\ heap.lst[r].prev # HRef(old)
            /\ k # NULL =>
                   /\ heap.cparent[k] = t
                   /\ \A c \in Elems(Children(heap, k)) :
                          tal_parent(heap, from_tal_hdr(c)) = last.ctxp
            /\ \A k2 \in heap.clive : heap.cparent[k2] # old

\* A moved node with a child and with a sibling after it in the list.
C9_Witness ==
    /\ last.op = "tal_resize_" /\ last.ret = 1 /\ last.ctxp # last.ctx
    /\ ChildrenOf(heap, last.ctxp) # <<>>
    /\ last.ctxp \notin Elems(ChildrenOf(heap, last.ctxp))
    /\ IsHRef(heap.lst[HRef(last.ctxp)].next)

\* ------------------------------------------------ the array operations
ArrAlloc == AllocArr(ElemSizes, 0..MaxCount, BOOLEAN, MaxArr)
ArrResize == Resize(ElemSizes, 0..MaxCount, ResizeOutcomes)

NextArr == ArrAlloc \/ ArrResize \/ Free

SpecArr == Init /\ [][NextArr]_vars

\* ---------------------------------------------------------------- C8
ArrDone == last'.op = "tal_alloc_arr_" /\ last'.ret # NULL
ResizeDone == last'.op = "tal_resize_" /\ last'.ret = 1
HasLength(H, ptr) == find_property_ptr(H, to_tal_hdr(ptr), "LENGTH") # 0

\* C8 as stated: tal_count right after tal_alloc_arr_ with count C is C, and
\* after a successful tal_resize_ to N elements it is N.
C8_CountAsStated ==
    [][/\ ArrDone => tal_count(heap', last'.ret) = last'.arg.count
       /\ ResizeDone => tal_count(heap', last'.ctxp) = last'.arg]_vars

\* C8, amended: a buffer has a length property exactly when tal_alloc_arr_
\* created it with add_count set.  For such a buffer tal_count is C right
\* after the allocation and N after a successful tal_resize_ to N elements,
\* moved or not, grown or shrunk; for a buffer created without add_count
\* tal_count is 0 throughout.  No call changes the count of another buffer.
C8_Count ==
    [][/\ ArrDone =>
            /\ HasLength(heap', last'.ret) = last'.arg.add_count
            /\ tal_count(heap', last'.ret)
                 = IF last'.arg.add_count THEN last'.arg.count ELSE 0
       /\ ResizeDone =>
            /\ HasLength(heap', last'.ctxp) = HasLength(heap, last'.ctx)
            /\ tal_count(heap', last'.ctxp)
                 = IF HasLength(heap, last'.ctx) THEN last'.arg ELSE 0
       /\ \A a \in heap.live \cap heap'.live :
            (ResizeDone /\ a = to_tal_hdr(last'.ctxp))
            \/ (HasLength(heap', from_tal_hdr(a))
                  = HasLength(heap, from_tal_hdr(a))
                /\ tal_count(heap', from_tal_hdr(a))
                     = tal_count(heap, from_tal_hdr(a)))]_vars

\* A moved array that has a child, so that its length record is not at the
\* head of the chain, resized to MaxCount elements.
C8_Witness ==
    /\ last.op = "tal_resize_" /\ last.ret = 1 /\ last.ctxp # last.ctx
    /\ last.arg = MaxCount
    /\ HasLength(heap, last.ctxp)
    /\ heap.prop[to_tal_hdr(last.ctxp)][1].type = "CHILDREN"
    /\ tal_count(heap, last.ctxp) = MaxCount

\* -------------------------------------- the calls the backend may refuse
FailAlloc == Alloc({""}, MaxArr)
FailSetName == SetName({"n"})
FailAddNotifier == AddNotifier({NotifyTypes}, {"f"})
FailResize == Resize({1}, {1}, {"fail", "inplace"})

NextFail ==
    FailAlloc \/ Steal \/ FailSetName \/ FailAddNotifier \/ FailResize

SpecFail == Init /\ [][NextFail]_vars

\* ---------------------------------------------------------------- C10
\* The tree state: the live nodes, every children list in order, and every
\* property chain (names included).
TreeState(H) ==
    [live |-> H.live,
     children |-> [t \in H.live \cup {null_parent} |-> ChildrenOf(H, t)],
     chains |-> [t \in H.live |-> H.prop[t]]]

BackendRefused ==
    /\ last'.op \in {"tal_alloc_", "tal_steal_", "tal_add_notifier_",
                     "tal_set_name_", "tal_resize_"}
    /\ last'.err \in {"allocation failed", "Reallocation failure"}

\* C10: a call in which the backend refused an allocation or a reallocation
\* returns null or false, invokes no callback, and leaves the tree state as
\* it was.
C10_FailureAtomic ==
    [][BackendRefused =>
         /\ last'.ret = 0
         /\ log' = <<>>
         /\ TreeState(heap') = TreeState(heap)]_vars

\* ------------------------------------ tal_free with callbacks that observe
ObsAlloc == Alloc({""}, MaxLive)
ObsAddNotifier == AddNotifier({NotifyTypes}, {"f"})
ObsAddDestructor == AddDestructor({"g"})

NextObs == ObsAlloc \/ ObsAddNotifier \/ ObsAddDestructor \/ Free \/ CbReturn

SpecObs == Init /\ [][NextObs]_vars

\* ---------------------------------------------------------------- C7
\* The descendants t had when the tal_free in progress started.
RECURSIVE UnderAtStart(_, _, _)
UnderAtStart(n, t, fuel) ==
    IF fuel = 0 \/ n \notin last.arg.doomed THEN FALSE
    ELSE last.arg.parent[n] = t \/ UnderAtStart(last.arg.parent[n], t, fuel - 1)
DescAtStart(t) == {n \in last.arg.doomed : UnderAtStart(n, t, MaxAddr)}

FreeCalls == {i \in 1..Len(log) : log[i].type = "FREE"}

\* The notifiers of a chain that subscribe to FREE, in chain order.
FreeSeqs(chain) ==
    LET sel == SelectSeq(chain, LAMBDA p : p.type = "NOTIFIER"
                                           /\ "FREE" \in p.types)
    IN  [i \in 1..Len(sel) |-> sel[i].seq]

\* C7: during a tal_free, while a FREE callback of a node runs no descendant
\* of the node has been destroyed or marked, no FREE callback of a
\* descendant was invoked before it, and the FREE callbacks invoked for the
\* node so far are the first FREE notifiers of its chain, in chain order,
\* which is latest-added first.
C7_FreeOrder ==
    last.op = "tal_free" =>
      /\ \A i \in FreeCalls, j \in FreeCalls :
            log[j].ctx \in DescAtStart(to_tal_hdr(log[i].ctx)) => i < j
      /\ \A i \in FreeCalls, j \in FreeCalls :
            (i < j /\ log[i].ctx = log[j].ctx) => log[i].seq > log[j].seq
      /\ (stack # <<>> /\ Top.fn = "cb") =>
            LET mine == SelectSeq(log, LAMBDA c : c.type = "FREE"
                                                  /\ c.ctx = from_tal_hdr(Top.t))
                all == FreeSeqs(heap.prop[Top.t])
            IN  /\ \A d \in DescAtStart(Top.t) :
                      /\ d \in heap.live
                      /\ ~get_destroying_bit(heap.parent_child[d])
                /\ Len(mine) \in 1..Len(all)
                /\ \A i \in 1..Len(mine) : mine[i].seq = all[i]

\* The second FREE callback of a node that has a child is running; one of
\* the two is a destructor, the other a general notifier.
C7_Witness ==
    /\ last.op = "tal_free" /\ stack # <<>> /\ Top.fn = "cb"
    /\ DescAtStart(Top.t) # {}
    /\ \E i \in FreeCalls, j \in FreeCalls :
          /\ i < j
          /\ log[i].ctx = from_tal_hdr(Top.t) /\ log[j].ctx = log[i].ctx
          /\ log[i].destroy # log[j].destroy

\* ------------------------------- tal_free with callbacks that call tal_free
CbAlloc == Alloc({""}, MaxLive)
CbAddNotifier == AddNotifier(Masks, {"f"})

NextCb ==
    CbAlloc \/ CbAddNotifier \/ Free \/ CbReturn \/ CbFree \/ Fault \/ GoOn

SpecCb == Init /\ [][NextCb]_vars

\* ---------------------------------------------------------------- C2
\* tal_first/tal_next from root: the nodes the traversal returns.
Traverse(H, root) == Desc(H, to_tal_hdr_or_null(root))

\* C2: when tal_free(x) has returned, with callbacks that reparent nothing,
\* x and every node that was a descendant of x when the call started have
\* been destroyed, and no traversal from the root or from a node that was
\* not destroyed returns one of them.
C2_Cascade ==
    (last.op = "tal_free" /\ stack = <<>> /\ ~crashed) =>
      /\ last.arg.doomed \cap heap.live = {}
      /\ \A n \in heap.live \cup {NULL} :
            Traverse(heap, n) \cap last.arg.doomed = {}

\* tal_free(x) has returned for an x that had a descendant, and a callback
\* of the call freed a node outside x's subtree.
C2_Witness ==
    /\ last.op = "tal_free" /\ stack = <<>> /\ ~crashed
    /\ Cardinality(last.arg.doomed) >= 2
    /\ \E i \in FreeCalls : to_tal_hdr(log[i].ctx) \notin last.arg.doomed

\* ---------------------------------------------------------------- C5
\* The nodes whose del_tree is in progress.
Destroying == {stack[i].t : i \in {j \in 1..Len(stack) :
                                     stack[j].fn = "del_tree"}}

\* The running callback has just called tal_free on a node whose del_tree is
\* in progress, and the call has returned or faulted.
NestedFreeOfDestroying ==
    /\ stack # <<>> /\ Top.fn = "cb"
    /\ Len(stack') = Len(stack)
    /\ stack'[Len(stack)].calls = Top.calls + 1
    /\ stack'[Len(stack)].nested.op = "tal_free"
    /\ to_tal_hdr(stack'[Len(stack)].nested.ctx) \in Destroying

\* C5: tal_free called by a FREE callback on a node that is being destroyed
\* does nothing: no list changes, no callback is invoked, no memory is
\* released, and it returns.
C5_NestedFreeNoop ==
    [][NestedFreeOfDestroying =>
         /\ heap' = heap
         /\ log' = log
         /\ ~crashed']_vars

\* ---------------------------------------------------------------- C6
\* What lets a call in progress take its next step: the guards of CbReturn
\* (a callback is running) and of GoOn (del_tree is running).
CallCanStep == ~crashed /\ stack # <<>> /\ Top.fn \in {"cb", "del_tree"}

\* C6: a tal_free in progress can always take its next step towards
\* returning; it never stops short of it.  (Each callback makes at most
\* MaxCbCalls calls and each del_tree marks a node that was not marked, so a
\* call that can always go on returns.)
C6_FreeReturns == stack # <<>> => CallCanStep

\* ---------------------------------------------------------------- C11
\* A tal_steal_ that returned NULL for a live node.
StealFailed == last'.op = "tal_steal_" /\ last'.ret = NULL /\ last'.ctx # NULL

\* C11: when tal_steal_(B, A) fails because B's children property cannot be
\* allocated, A is again a child of the parent it had (linked once, in that
\* parent's list), the call returns NULL, no notifier is called, and the
\* re-attachment asked for no allocation: no children property was created
\* and abort() was not reached.
C11_StealFailure ==
    [][StealFailed =>
         LET A == to_tal_hdr(last'.ctx)
             old == ParentHdr(heap, A)
         IN  /\ tal_parent(heap', last'.ctx) = tal_parent(heap, last'.ctx)
             /\ ParentHdr(heap', A) = old
             /\ Count(A, ChildrenOf(heap', old)) = 1
             /\ LinkedOnce(heap', A)
             /\ log' = <<>>
             /\ last'.err = "allocation failed"
             /\ heap'.clive = heap.clive
             /\ heap'.live = heap.live]_vars

\* A failed steal of a node that carries a notifier subscribed to STEAL, to
\* a live node other than its parent.
C11_Witness ==
    /\ last.op = "tal_steal_" /\ last.ret = NULL /\ last.ctx \in heap.live
    /\ last.arg \in heap.live
    /\ tal_parent(heap, last.ctx) # last.arg
    /\ heap.notifiers # 0
    /\ next_notifier(heap.prop[to_tal_hdr(last.ctx)], "STEAL", 1) # 0
    /\ log = <<>>

\* ------------------------------------------- notifiers added and removed
NotifMasks == {{"FREE"}, {"ADD_NOTIFIER", "DEL_NOTIFIER"}, NotifyTypes}

NotifAlloc == Alloc({""}, MaxArr)
NotifAddNotifier == AddNotifier(NotifMasks, Callbacks)
NotifAddDestructor == AddDestructor(Callbacks)

NextNotif ==
    \/ NotifAlloc \/ NotifAddNotifier \/ NotifAddDestructor \/ DelNotifier
    \/ Free \/ CbReturn

SpecNotif == Init /\ [][NextNotif]_vars

\* ---------------------------------------------------------------- C12
\* The notifier properties on live nodes whose event mask (the destructor
\* flag set aside) is not exactly FREE.
GeneralNotifiers(H) ==
    {q \in H.live \X (1..(MaxNotifiers + 2)) :
       /\ q[2] <= Len(H.prop[q[1]])
       /\ H.prop[q[1]][q[2]].type = "NOTIFIER"
       /\ H.prop[q[1]][q[2]].types \ {NOTIFY_IS_DESTRUCTOR} # {"FREE"}}

\* C12: whenever no call is in progress, the counter `notifiers` equals the
\* number of notifier properties on live nodes whose event mask is not
\* exactly FREE.
C12_NotifiersCount ==
    stack = <<>> => heap.notifiers = Cardinality(GeneralNotifiers(heap))

\* ------------------------------------------------- plain nodes, freed
ChainAlloc == Alloc({""}, MaxLive)

NextChain == ChainAlloc \/ Free

SpecChain == Init /\ [][NextChain]_vars

\* ---------------------------------------------------------------- C13
\* The blocks given to freefn between two heaps: headers and children
\* properties (plain nodes have no other separately allocated property).
Released(H1, H2) ==
    Cardinality(H1.live \ H2.live) + Cardinality(H1.clive \ H2.clive)

\* A tal_free the application made, complete.
FreeDone == last'.op = "tal_free" /\ stack = <<>> /\ stack' = <<>>

\* C13 as stated: freeing a subtree of k plain nodes (no name, no notifier)
\* calls the backend release function exactly k times.
C13_ReleasesAsStated ==
    [][FreeDone =>
         Released(heap, heap') = Cardinality(last'.arg.doomed)]_vars

\* C13: freeing a subtree of k plain nodes calls the backend release
\* function k + m times, m being the number of nodes of the subtree that
\* have a children property; every node of the subtree is released, and
\* afterwards tal_first(null) is the first child of null that was not in the
\* subtree, null when there is none.
C13_Releases ==
    [][FreeDone =>
         LET doomed == last'.arg.doomed
             m == Cardinality({n \in doomed : HasChildren(heap, n)})
             rest == SelectSeq(ChildrenOf(heap, null_parent),
                               LAMBDA n : n \notin doomed)
         IN  /\ Released(heap, heap') = Cardinality(doomed) + m
             /\ heap'.live = heap.live \ doomed
             /\ tal_first(heap', NULL)
                  = IF rest = <<>> THEN NULL ELSE from_tal_hdr(rest[1])]_vars

\* tal_free(a) has destroyed the chain a, b, c, the only nodes there were.
C13_Witness ==
    /\ last.op = "tal_free" /\ stack = <<>>
    /\ Cardinality(last.arg.doomed) = 3
    /\ \E b, c \in last.arg.doomed :
         /\ last.arg.parent[to_tal_hdr(last.ctx)] = null_parent
         /\ last.arg.parent[b] = to_tal_hdr(last.ctx)
         /\ last.arg.parent[c] = b
    /\ heap.live = {} /\ heap.clive = {}
    /\ tal_first(heap, NULL) = NULL

\* ------------------------------------------------------ names set and read
Labels == {"", "n"}
NewNames == {"", "n", "m"}

NameAlloc == Alloc(Labels, MaxArr)
NameSet == SetName(NewNames)
NameAddNotifier == AddNotifier({NotifyTypes}, {"f"})

NextName == NameAlloc \/ NameSet \/ NameAddNotifier

SpecName == Init /\ [][NextName]_vars

\* ---------------------------------------------------------------- C14
\* The NAME properties in the chain of ctx (allocated copies of a name).
NameProps(H, ctx) ==
    {i \in 1..Len(H.prop[to_tal_hdr(ctx)]) :
       H.prop[to_tal_hdr(ctx)][i].type = "NAME"}

\* The literal names in the chain of ctx.
Literals(H, ctx) ==
    {i \in 1..Len(H.prop[to_tal_hdr(ctx)]) :
       is_literal(H.prop[to_tal_hdr(ctx)][i])}

\* A tal_set_name_ that returned true.
SetNameDone == last'.op = "tal_set_name_" /\ last'.ret = 1

\* C14 as stated: for every s, the empty string included, after
\* tal_set_name_(x, s, literal = true) tal_name(x) is the pointer s itself
\* and x has no NAME property; after literal = false tal_name(x) is another
\* pointer with the contents of s; no earlier name is left.
C14_NameAsStated ==
    [][SetNameDone =>
         LET x == last'.ctx
             s == last'.arg.name
         IN  /\ last'.arg.literal =>
                  /\ tal_name(heap', x) = [kind |-> "literal", name |-> s]
                  /\ NameProps(heap', x) = {}
                  /\ Cardinality(Literals(heap', x)) = 1
             /\ ~last'.arg.literal =>
                  /\ tal_name(heap', x) = [kind |-> "copy", name |-> s]
                  /\ Cardinality(NameProps(heap', x)) = 1
                  /\ Literals(heap', x) = {}]_vars

\* C14: the same with the empty string treated as the code treats it:
\* tal_set_name_(x, "", literal = true) stores a copy, like literal = false.
C14_Name ==
    [][SetNameDone =>
         LET x == last'.ctx
             s == last'.arg.name
             kept == last'.arg.literal /\ s # ""
         IN  /\ kept =>
                  /\ tal_name(heap', x) = [kind |-> "literal", name |-> s]
                  /\ NameProps(heap', x) = {}
                  /\ Cardinality(Literals(heap', x)) = 1
             /\ ~kept =>
                  /\ tal_name(heap', x) = [kind |-> "copy", name |-> s]
                  /\ Cardinality(NameProps(heap', x)) = 1
                  /\ Literals(heap', x) = {}]_vars

\* The empty string has been set as a literal name on a node that has a
\* notifier, which was told of it.
C14_Witness ==
    /\ last.op = "tal_set_name_" /\ last.ret = 1
    /\ last.arg.literal /\ last.arg.name = ""
    /\ tal_name(heap, last.ctx) = [kind |-> "copy", name |-> ""]
    /\ Len(heap.prop[to_tal_hdr(last.ctx)]) >= 2
    /\ log # <<>>

\* ------------------------------------------------------ the size check
\* The arguments of one call: every elem_size and count of the word width.
InitSize ==
    /\ heap = InitHeap
    /\ stack = <<>>
    /\ log = <<>>
    /\ crashed = FALSE
    /\ \E size \in 0..SIZE_MAX, count \in 0..SIZE_MAX, has_length \in BOOLEAN :
         last = Last("args", NULL,
                     [size |-> size, count |-> count,
                      has_length |-> has_length], NULL, "", NULL)

\* The size computation of a call, up to the request to the backend: ret is
\* 1 when the size check passed, ctxp is the byte size requested and
\* arg.length_at the offset of the length record in the payload.
SizeCall(op) ==
    /\ last.op = "args"
    /\ \E a \in adjust_size_outcomes(last.arg.size, last.arg.count) :
         /\ crashed' = a.fault
         /\ last' = IF a.fault THEN Last(op, NULL, last.arg, NULL, "", NULL)
                    ELSE IF ~a.ok
                    THEN Last(op, NULL, last.arg, 0,
                              "allocation size overflow", NULL)
                    ELSE Last(op, NULL,
                              [size |-> last.arg.size,
                               count |-> last.arg.count,
                               has_length |-> last.arg.has_length,
                               length_at |-> IF last.arg.has_length
                                             THEN length_offset(op, a.size)
                                             ELSE NULL],
                              1, "",
                              request_size(a.size, last.arg.has_length))
    /\ UNCHANGED <<heap, stack, log>>

SizeAllocArr == SizeCall("tal_alloc_arr_")
SizeResize == SizeCall("tal_resize_")

NextSize == SizeAllocArr \/ SizeResize

SpecSize == InitSize /\ [][NextSize]_vars

\* ---------------------------------------------------------------- C15
\* The size check as the claim has it: the product wraps, or the product
\* plus the header and the room reserved for the length trailer wraps.
SizeOverflows(size, count) ==
    \/ size * count > SIZE_MAX
    \/ size * count + HdrSize + LengthSize * 2 > SIZE_MAX

\* C15: for every elem_size and count, zero included, tal_alloc_arr_ and
\* tal_resize_ fail with "allocation size overflow" exactly when the product
\* or the sum wraps; otherwise the call goes on and the size requested from
\* the backend is the unwrapped sum of header, product and trailer.
C15_SizeCheck ==
    last.op \in {"tal_alloc_arr_", "tal_resize_"} =>
        LET size == last.arg.size
            count == last.arg.count
            trailer == IF last.arg.has_length
                       THEN ((LengthAlign - ((size * count) % LengthAlign))
                                % LengthAlign) + LengthSize
                       ELSE 0
        IN  /\ ~crashed
            /\ (last.err = "allocation size overflow")
                  = SizeOverflows(size, count)
            /\ ~SizeOverflows(size, count) =>
                  /\ last.ret = 1
                  /\ last.ctxp = HdrSize + size * count + trailer

\* ------------------------------------- notifiers of one node, add and delete
AdAlloc == Alloc({""}, 1)
AdAdd == AddNotifierUpTo(NotifMasks, Callbacks, MaxNotifiers)

NextAddDel == AdAlloc \/ AdAdd \/ DelNotifier

SpecAddDel == Init /\ [][NextAddDel]_vars

\* ---------------------------------------------------------------- C16
\* The notifiers of a chain that subscribe to `type`, in chain order.
Subscribers(chain, type) ==
    SelectSeq(chain, LAMBDA p : p.type = "NOTIFIER" /\ type \in p.types)

\* The notifiers of a chain that are not in another.
Seqs(chain) == {chain[i].seq : i \in {j \in 1..Len(chain) :
                                        chain[j].type = "NOTIFIER"}}

\* The callbacks a call invoked are exactly these notifiers, once each and
\* in this order, for this event on this node with this callback as info.
Delivered(calls, subs, type, ctx, fn) ==
    /\ Len(calls) = Len(subs)
    /\ \A i \in 1..Len(calls) :
         calls[i] = [ctx |-> ctx, type |-> type, fn |-> subs[i].fn,
                     seq |-> subs[i].seq, destroy |-> FALSE,
                     info |-> Info("fn", 0, fn)]

AddNotifierDone == last'.op = "tal_add_notifier_" /\ last'.ret = 1
DelNotifierDone == last'.op = "tal_del_notifier_" /\ last'.ret = 1

WalkAlloc == Alloc({""}, MaxLive)

NextWalk == WalkAlloc \/ Steal \/ Free

SpecWalk == Init /\ [][NextWalk]_vars

\* ---------------------------------------------------------------- C17
\* What the loop `for (i = tal_first(root); i; i = tal_next(root, i))`
\* visits, starting at cur; Undefined is appended when a call runs off the
\* tree or the loop is still going after more steps than there are nodes.
RECURSIVE Visit(_, _, _, _)
Visit(H, root, cur, fuel) ==
    IF cur = NULL THEN <<>>
    ELSE IF cur = Undefined \/ fuel = 0 THEN <<Undefined>>
    ELSE <<cur>> \o Visit(H, root, tal_next(H, root, cur), fuel - 1)

\* The nodes below a list of siblings in pre-order: each node, then its
\* children in list order, then its later siblings.
RECURSIVE PreOrder(_, _, _)
PreOrder(H, q, fuel) ==
    IF q = <<>> \/ fuel = 0 THEN <<>>
    ELSE <<from_tal_hdr(Head(q))>>
         \o PreOrder(H, ChildrenOf(H, Head(q)), fuel - 1)
         \o PreOrder(H, Tail(q), fuel)

\* C17: for every root, a live node or null, tal_first(root) and then
\* tal_next(root, prev) visit every proper descendant of root exactly once,
\* in pre-order, return no node outside root's subtree, and then null.
C17_Traversal ==
    stack = <<>> =>
        \A root \in heap.live \cup {NULL} :
            LET seen == Visit(heap, root, tal_first(heap, root), MaxAddr + 1)
                t == to_tal_hdr_or_null(root)
            IN  /\ seen = PreOrder(heap, ChildrenOf(heap, t), MaxAddr + 1)
                /\ Elems(seen) = Desc(heap, t)
                /\ root \notin Elems(seen) \/ root = NULL
                /\ \A n \in Elems(seen) : Count(n, seen) = 1

\* ---------------------------------------------------------------- C18
\* The FREE callbacks a destroyed node with this chain is owed during
\* tal_free(x): a destructor gets the node's pointer alone, a general
\* notifier gets (the node's pointer, FREE, x).
FreeCallsOwed(chain, n, x) ==
    LET sel == SelectSeq(chain, LAMBDA p : p.type = "NOTIFIER"
                                           /\ "FREE" \in p.types)
    IN  [i \in 1..Len(sel) |->
           [ctx |-> from_tal_hdr(n), type |-> "FREE", fn |-> sel[i].fn,
            seq |-> sel[i].seq,
            destroy |-> NOTIFY_IS_DESTRUCTOR \in sel[i].types,
            info |-> IF NOTIFY_IS_DESTRUCTOR \in sel[i].types THEN NoInfo
                     ELSE Info("ptr", x, "")]]

\* C18: by the time tal_free(x) releases a node n of the subtree, every
\* FREE notifier on n has been called once: a destructor with n's user
\* pointer, a general notifier with (n's user pointer, FREE, x).
C18_FreeArguments ==
    [][last'.op = "tal_free" =>
         \A n \in heap.live \ heap'.live :
            SelectSeq(log', LAMBDA c : c.type = "FREE"
                                       /\ c.ctx = from_tal_hdr(n))
              = FreeCallsOwed(heap.prop[n], n, last'.ctx)]_vars

\* tal_free(x) has returned after calling a destructor and a general FREE
\* notifier of a node other than x.
C18_Witness ==
    /\ last.op = "tal_free" /\ stack = <<>>
    /\ \E i, j \in FreeCalls :
         /\ log[i].ctx # last.ctx /\ log[i].destroy
         /\ log[j].ctx = log[i].ctx /\ ~log[j].destroy
         /\ log[j].info = Info("ptr", last.ctx, "")

\* ------------------------------------------------ every kind of property
ChainAlloc1 == Alloc({"n"}, MaxArr)
ChainAllocArr == AllocArr({1}, {1}, {TRUE}, MaxArr)
ChainSetName == SetName({"n"})
ChainAddNotifier == AddNotifierUpTo({NotifyTypes}, {"f"}, MaxChainNotifiers)
ChainResize == Resize({1}, {1}, {"inplace"})

ChainDelNotifier == DelNotifierOf({"f"})

NextProps ==
    \/ ChainAlloc1 \/ ChainAllocArr \/ ChainSetName \/ ChainAddNotifier
    \/ ChainDelNotifier \/ Steal \/ ChainResize

SpecProps == Init /\ [][NextProps]_vars

\* ---------------------------------------------------------------- C19
\* The positions of a chain that hold a property of one of these kinds.
Positions(chain, kinds) == {i \in 1..Len(chain) : chain[i].type \in kinds}

\* C19: after any sequence of alloc, alloc_arr, set_name, add and delete
\* notifier, steal and resize calls, the chain of every live node has at
\* most one CHILDREN, at most one NAME or literal name and at most one
\* LENGTH, and a literal name is the last element of the chain.
C19_ChainShape ==
    \A n \in heap.live :
       LET chain == heap.prop[n]
       IN  /\ Cardinality(Positions(chain, {"CHILDREN"})) <= 1
           /\ Cardinality(Positions(chain, {"NAME", "literal"})) <= 1
           /\ Cardinality(Positions(chain, {"LENGTH"})) <= 1
           /\ \A i \in Positions(chain, {"literal"}) : i = Len(chain)

\* A node that carries a notifier, a children property, a length and a
\* literal name at once, after a resize.
C19_Witness ==
    /\ last.op = "tal_resize_" /\ last.ret = 1
    /\ LET chain == heap.prop[to_tal_hdr(last.ctxp)]
       IN  /\ Positions(chain, {"NOTIFIER"}) # {}
           /\ Positions(chain, {"CHILDREN"}) # {}
           /\ Positions(chain, {"LENGTH"}) # {}
           /\ Positions(chain, {"literal"}) # {}

\* ---------------------------------------------------------------- C20
\* A call on a node with a length record whose size check passed.
LengthPlaced(op) == last.op = op /\ last.ret = 1 /\ last.arg.has_length

\* The placement the claim describes: the record starts at a multiple of
\* its alignment, fills the last sizeof(length) bytes of the block asked of
\* the backend, and lies beyond the elem_size * count payload bytes.
WellPlaced ==
    /\ last.arg.length_at % LengthAlign = 0
    /\ HdrSize + last.arg.length_at + LengthSize = last.ctxp
    /\ last.arg.length_at >= last.arg.size * last.arg.count

\* C20: for every payload size, after tal_alloc_arr_ with an embedded length
\* and after every successful tal_resize_ of such a node, the length record
\* is aligned, is the tail of the block and does not overlap the payload.
C20_LengthPlacement ==
    (LengthPlaced("tal_alloc_arr_") \/ LengthPlaced("tal_resize_"))
        => WellPlaced

\* ------------------------------------- releases under reentrant tal_free
\* Nodes with a literal label or an embedded length record, FREE notifiers
\* on them, and tal_free called by the application and by the callbacks.
RelAlloc == Alloc({"n"}, 1)
RelAllocArr == AllocArr({1}, {1}, {TRUE}, MaxLive)
RelAddNotifier == AddNotifier({{"FREE"}}, {"f"})

NextRel ==
    \/ RelAlloc \/ RelAllocArr \/ RelAddNotifier \/ Free \/ CbReturn
    \/ CbFree \/ Fault \/ GoOn

SpecRel == Init /\ [][NextRel]_vars

CountMasks == {{"ADD_CHILD", "ADD_NOTIFIER"}}
CountAlloc == Alloc({""}, MaxArr)
CountAddNotifier ==
    AddNotifierWithin(CountMasks, {"f"}, MaxNotifierAdds, SIZE_MAX + 1)

NextCount == CountAlloc \/ CountAddNotifier \/ Free

SpecCount == Init /\ [][NextCount]_vars

\* ---------------------------------------------------------------- C22
\* The calls of this specification that test `if (notifiers)`: no event is
\* skipped that a notifier on the notified node subscribes to.
NoEventSkipped ==
    /\ (last.op = "tal_add_notifier_" /\ last.ret = 1) =>
          (Subscribers(Tail(heap.prop[to_tal_hdr(last.ctx)]),
                       "ADD_NOTIFIER") # <<>> => log # <<>>)
    /\ (last.op = "tal_alloc_" /\ last.ret # NULL) =>
          (Subscribers(heap.prop[to_tal_hdr_or_null(last.ctx)],
                       "ADD_CHILD") # <<>> => log # <<>>)

\* C22: in every reachable state the counter `notifiers` is at least the
\* number of notifiers on live nodes whose mask is not exactly FREE, and the
\* `if (notifiers)` test of a call never skips an event that a notifier on
\* the notified node subscribes to.
C22_NeverUnderCounts ==
    /\ heap.notifiers >= Cardinality(GeneralNotifiers(heap))
    /\ NoEventSkipped

====
